---- MODULE Spec2Model ----
(***************************************************************************)
(* Model of scripts/drop_columns.py: drop_unused_columns rebuilds a SQLite *)
(* table keeping only the columns of a keep-list.  The database is the     *)
(* catalog of tables (column descriptors as PRAGMA table_info returns      *)
(* them, and a bag of rows); the connection sees `work`, other readers and *)
(* a later run see the committed `disk`.                                   *)
(*                                                                         *)
(* Cell values are SQL NULL or numbers.  Numbers are kept in halves: the   *)
(* integer v stands for v / 2, so 2 is 1, 3 is 1.5 and Whole(k) is k.      *)
(***************************************************************************)
EXTENDS Integers, Sequences, FiniteSets, Bags, TLC

----------------------------------------------------------------------------
(* Bounds of the model *)

MaxVal == 3        \* largest whole number stored in a cell
MaxRows == 3       \* rows of the original table
MaxKeep == 2       \* length of the keep-list
MaxBatch == 3      \* largest --batch-size

----------------------------------------------------------------------------
(* Values, rows, column descriptors, tables *)

NULL == [null |-> TRUE, v |-> 0]
Num(n) == [null |-> FALSE, v |-> n]
\* the whole number k, in halves
Whole(k) == k + k

table_name == "t"
new_table == "t_new"

\* Python None as the dflt_value of PRAGMA table_info
None == "None"

\* The elements of a sequence
Range(s) == {s[i] : i \in DOMAIN s}

\* the elements of s that are in S, in the order of s: [x for x in s if x in S]
RECURSIVE SelectIn(_, _)
SelectIn(s, S) ==
    IF s = <<>> THEN <<>>
    ELSE IF Head(s) \in S THEN <<Head(s)>> \o SelectIn(Tail(s), S)
         ELSE SelectIn(Tail(s), S)

\* PRAGMA table_info(t): one record per column, in table order
\*   name, type, notnull (0/1), dflt_value (None or SQL text), pk (0, or the
\*   1-based position of the column in the primary key)
get_current_columns(info) == [i \in DOMAIN info |-> info[i].name]

\* table_info = {row[1]: row for row in cursor.fetchall()}
InfoOf(info, col) == info[CHOOSE i \in DOMAIN info : info[i].name = col]

\* SELECT COUNT(*) FROM t
count_rows(tbl) == BagCardinality(tbl.rows)

\* SELECT <cols> of one row
Project(row, cols) == [c \in Range(cols) |-> row[c]]

\* the bag of the projections of the rows of B that satisfy the range test
\*   SELECT <cols> FROM t WHERE col >= lo AND col <= hi
InRange(row, col, lo, hi) ==
    /\ ~row[col].null
    /\ row[col].v >= lo
    /\ row[col].v <= hi

RECURSIVE BagProject(_, _, _)
BagProject(B, rowset, cols) ==
    IF rowset = {} THEN EmptyBag
    ELSE LET r == CHOOSE x \in rowset : TRUE
         IN  [p \in {Project(r, cols)} |-> B[r]] (+) BagProject(B, rowset \ {r}, cols)

SelectRange(tbl, cols, col, lo, hi) ==
    BagProject(tbl.rows,
               {r \in BagToSet(tbl.rows) : InRange(r, col, lo, hi)},
               cols)

\* SELECT MIN(col), MAX(col) FROM t: NULLs are skipped, None on no value
NonNull(tbl, col) == {r[col].v : r \in {x \in BagToSet(tbl.rows) : ~x[col].null}}
MinOf(tbl, col) ==
    IF NonNull(tbl, col) = {} THEN NULL
    ELSE Num(CHOOSE m \in NonNull(tbl, col) : \A x \in NonNull(tbl, col) : m <= x)
MaxOf(tbl, col) ==
    IF NonNull(tbl, col) = {} THEN NULL
    ELSE Num(CHOOSE m \in NonNull(tbl, col) : \A x \in NonNull(tbl, col) : m >= x)

----------------------------------------------------------------------------
(* Constraints of a table: PRIMARY KEY uniqueness (a key with a NULL member *)
(* never collides in a rowid table) and NOT NULL                            *)

PkNames(info) == {info[i].name : i \in {j \in DOMAIN info : info[j].pk > 0}}

UniqueOk(info, rows) ==
    \/ PkNames(info) = {}
    \/ \A r \in BagToSet(rows) :
          (\A c \in PkNames(info) : ~r[c].null) =>
             /\ rows[r] = 1
             /\ \A q \in BagToSet(rows) \ {r} : \E c \in PkNames(info) : q[c] # r[c]

NotNullOk(info, rows) ==
    \A i \in DOMAIN info :
       info[i].notnull = 1 => \A r \in BagToSet(rows) : ~r[info[i].name].null

ConstraintsOk(info, rows) == UniqueOk(info, rows) /\ NotNullOk(info, rows)

----------------------------------------------------------------------------
(* Lines 95-109: the column definitions of the shadow table, and what      *)
(* CREATE TABLE makes of them                                               *)

\* f"{col_name} {col_type} {not_null} {default_val} {is_pk}"
ColumnDef(row) ==
    [col_name    |-> row.name,
     col_type    |-> row.type,
     not_null    |-> row.notnull = 1,
     default_val |-> row.dflt,
     is_pk       |-> row.pk = 1]

ColumnDefs(info, valid) ==
    [i \in DOMAIN valid |-> ColumnDef(InfoOf(info, valid[i]))]

\* the table_info of the table that CREATE TABLE <name> (<defs>) creates
CreatedInfo(defs) ==
    [i \in DOMAIN defs |->
        [name    |-> defs[i].col_name,
         type    |-> defs[i].col_type,
         notnull |-> IF defs[i].not_null THEN 1 ELSE 0,
         dflt    |-> defs[i].default_val,
         pk      |-> IF defs[i].is_pk THEN 1 ELSE 0]]

\* CREATE TABLE fails on an empty column list ("syntax error"), on a repeated
\* column name ("duplicate column name") and when the table exists
CreateOk_EmptyAllowed(db, name, defs) ==
    /\ name \notin DOMAIN db
    /\ \A i, j \in DOMAIN defs : defs[i].col_name = defs[j].col_name => i = j
CreateOk_Replaces(db, name, defs) ==
    /\ defs # <<>>
    /\ \A i, j \in DOMAIN defs : defs[i].col_name = defs[j].col_name => i = j
CreateOk(db, name, defs) ==
    /\ name \notin DOMAIN db
    /\ defs # <<>>
    /\ \A i, j \in DOMAIN defs : defs[i].col_name = defs[j].col_name => i = j

----------------------------------------------------------------------------
(* Inputs: the database before the first run, the keep-list, the batch size *)

ColNames == <<"a", "b", "c">>

\* fixed per-column declarations: type, NOT NULL, DEFAULT
ColType(c) == IF c = "b" THEN "REAL" ELSE "INT"
ColNotNull(c) == IF c = "b" THEN 1 ELSE 0
ColDefault(c) == IF c = "c" THEN "0" ELSE None

\* primary keys over n columns: pk[i] = 0, or the position of column i in the key
PkAssign(n) ==
    {f \in [1..n -> 0..n] :
        /\ \A i, j \in 1..n : (f[i] > 0 /\ f[i] = f[j]) => i = j
        /\ \A i \in 1..n : \A m \in 1..f[i] : \E j \in 1..n : f[j] = m}

InfoFor(n, f) ==
    [i \in 1..n |->
        [name    |-> ColNames[i],
         type    |-> ColType(ColNames[i]),
         notnull |-> ColNotNull(ColNames[i]),
         dflt    |-> ColDefault(ColNames[i]),
         pk      |-> f[i]]]

\* numbers 1, 1.5, 2, ... MaxVal, and NULL
AllVals == {NULL} \cup {Num(n) : n \in Whole(1)..Whole(MaxVal)}
\* the whole numbers 1 and 2
FewVals == {Num(Whole(1)), Num(Whole(1) + Whole(1))}
OneVal == {Num(Whole(1))}

SeqToBag(s) == [r \in Range(s) |-> Cardinality({i \in DOMAIN s : s[i] = r})]
BagsOver(R) == {SeqToBag(s) : s \in UNION {[1..k -> R] : k \in 0..MaxRows}}

TableOver(info, R) ==
    {[info |-> info, rows |-> B] : B \in {X \in BagsOver(R) : ConstraintsOk(info, X)}}

\* two columns, no key or the key on a; a takes every value
DataTables ==
    UNION {TableOver(InfoFor(2, f),
                     {[a |-> x, b |-> y] : x \in AllVals, y \in OneVal}) :
           f \in {g \in PkAssign(2) : g[2] = 0}}

\* two or three columns, every primary key; b takes two values
SchemaTables ==
    UNION {TableOver(InfoFor(2, f),
                     {[a |-> x, b |-> y] : x \in OneVal, y \in FewVals}) :
           f \in PkAssign(2)}
    \cup
    UNION {TableOver(InfoFor(3, f),
                     {[a |-> x, b |-> y, c |-> z] :
                         x \in OneVal, y \in FewVals, z \in OneVal}) :
           f \in PkAssign(3)}

\* the catalog: a function from the names of the tables to the tables
NoTables == [n \in {} |-> 0]
Catalog(tbl) == [n \in {table_name} |-> tbl]
Databases == {NoTables} \cup {Catalog(tbl) : tbl \in DataTables \cup SchemaTables}

KeepLists == UNION {[1..k -> Range(ColNames)] : k \in 0..MaxKeep}
BatchSizes == 0..MaxBatch

----------------------------------------------------------------------------
(* State *)

VARIABLES
    pc,               \* the position of main and of drop_unused_columns
    exit_code,        \* the exit status of the process: "none", "0" or "1"
    missing_file,     \* the file main did not find: "none", "db_path" or "columns_file"
    disk,             \* the committed database
    work,             \* the database as the connection sees it
    conn,             \* TRUE once sqlite3.connect has been called in this run
    backup_failed,    \* create_backup returned False in this run
    columns_to_keep,  \* argument: the keep-list
    batch_size,       \* argument
    valid_columns,
    columns_to_drop,
    total_rows,
    column_defs,
    primary_key_cols,
    batch_column,
    max_id,
    current_min,
    processed_rows,
    returned,         \* "none", "True" or "False"
    failed_at,        \* the position that raised ("Error occurred: ..."), or "none"
    before            \* the committed database when the run started

process == <<exit_code, missing_file>>
args == <<columns_to_keep, batch_size>>
locals == <<valid_columns, columns_to_drop, total_rows, column_defs,
            primary_key_cols, batch_column, max_id, current_min, processed_rows>>
vars == <<pc, process, disk, work, conn, backup_failed, args, locals, returned, failed_at,
          before>>

\* the locals before their assignment
Unset ==
    /\ valid_columns' = <<>>
    /\ columns_to_drop' = <<>>
    /\ total_rows' = 0
    /\ column_defs' = <<>>
    /\ primary_key_cols' = <<>>
    /\ batch_column' = "none"
    /\ max_id' = NULL
    /\ current_min' = NULL
    /\ processed_rows' = 0

Init ==
    /\ pc = "main"
    /\ exit_code = "none"
    /\ missing_file = "none"
    /\ disk \in Databases
    /\ work = disk
    /\ before = disk
    /\ conn = FALSE
    /\ backup_failed = FALSE
    /\ columns_to_keep \in KeepLists
    /\ batch_size \in BatchSizes
    /\ valid_columns = <<>>
    /\ columns_to_drop = <<>>
    /\ total_rows = 0
    /\ column_defs = <<>>
    /\ primary_key_cols = <<>>
    /\ batch_column = "none"
    /\ max_id = NULL
    /\ current_min = NULL
    /\ processed_rows = 0
    /\ returned = "none"
    /\ failed_at = "none"

----------------------------------------------------------------------------
(* drop_unused_columns, lines 43-208 *)

\* the reconciler, lines 79 and 83
ValidColumns_AllCurrent(keep, current) == current
ValidColumns_TableOrder(keep, current) == SelectIn(current, Range(keep))
ValidColumns(keep, current) == SelectIn(keep, Range(current))
ColumnsToDrop_Swapped(keep, current) == SelectIn(keep, Range(keep) \ Range(current))
ColumnsToDrop(keep, current) == SelectIn(current, Range(current) \ Range(keep))

\* line 113: the primary-key columns, in table order
PrimaryKeyCols(info) ==
    SelectIn(get_current_columns(info), PkNames(info))

\* line 127
BatchColumn(pkcols, valid) ==
    IF pkcols # <<>> /\ pkcols[1] \in Range(valid) THEN pkcols[1] ELSE valid[1]

\* line 144, in halves
CurrentMax(lo, size) == lo + Whole(size) - Whole(1)
\* line 173
NextMin(hi) == hi + Whole(1)

\* lines 140-173 as a function of the batch size (at least 1): the rows the
\* loop copies from lower bound lo to MAX hi
RECURSIVE CopyLoop(_, _, _, _, _, _)
CopyLoop(tbl, cols, col, lo, hi, size) ==
    IF lo > hi THEN EmptyBag
    ELSE SelectRange(tbl, cols, col, lo, CurrentMax(lo, size))
         (+) CopyLoop(tbl, cols, col, NextMin(CurrentMax(lo, size)), hi, size)

\* lines 136-173: everything the loop copies with batch size `size`
CopyAll(tbl, cols, col, size) ==
    IF MinOf(tbl, col).null THEN EmptyBag
    ELSE CopyLoop(tbl, cols, col, MinOf(tbl, col).v, MaxOf(tbl, col).v, size)

\* lines 54-58: the backup, when requested, comes first and its failure ends the run
Backup_IgnoresFailure ==
    /\ pc = "start"
    /\ \E create_backup_file \in BOOLEAN, copied \in BOOLEAN :
          backup_failed' = (create_backup_file /\ ~copied)
    /\ pc' = "connect"
    /\ UNCHANGED <<disk, work, conn, args, process, locals, returned, failed_at, before>>
Backup ==
    /\ pc = "start"
    /\ \E create_backup_file \in BOOLEAN, copied \in BOOLEAN :
          IF create_backup_file /\ ~copied
          THEN /\ backup_failed' = TRUE
               /\ returned' = "False"
               /\ pc' = "done"
          ELSE /\ backup_failed' = FALSE
               /\ returned' = returned
               /\ pc' = "connect"
    /\ UNCHANGED <<disk, work, conn, args, process, locals, failed_at, before>>

\* lines 60-72: connect; the table is not in the catalog
TableMissing_ReturnsTrue ==
    /\ pc = "connect"
    /\ table_name \notin DOMAIN work
    /\ conn' = TRUE
    /\ returned' = "True"
    /\ pc' = "done"
    /\ UNCHANGED <<disk, work, backup_failed, args, process, locals, failed_at, before>>
TableMissing ==
    /\ pc = "connect"
    /\ table_name \notin DOMAIN work
    /\ conn' = TRUE
    /\ returned' = "False"
    /\ pc' = "done"
    /\ UNCHANGED <<disk, work, backup_failed, args, process, locals, failed_at, before>>

\* lines 60-89: connect, reconcile; nothing to drop
NothingToDrop ==
    /\ pc = "connect"
    /\ table_name \in DOMAIN work
    /\ LET current_columns == get_current_columns(work[table_name].info)
       IN  /\ ColumnsToDrop(columns_to_keep, current_columns) = <<>>
           /\ valid_columns' = ValidColumns(columns_to_keep, current_columns)
           /\ columns_to_drop' = <<>>
    /\ conn' = TRUE
    /\ returned' = "True"
    /\ pc' = "done"
    /\ UNCHANGED <<disk, work, backup_failed, args, process, total_rows, column_defs,
                   primary_key_cols, batch_column, max_id, current_min,
                   processed_rows, failed_at, before>>

\* lines 60-113: connect, reconcile, count, build the column definitions
Introspect ==
    /\ pc = "connect"
    /\ table_name \in DOMAIN work
    /\ LET info == work[table_name].info
           current_columns == get_current_columns(info)
       IN  /\ ColumnsToDrop(columns_to_keep, current_columns) # <<>>
           /\ valid_columns' = ValidColumns(columns_to_keep, current_columns)
           /\ columns_to_drop' = ColumnsToDrop(columns_to_keep, current_columns)
           /\ total_rows' = count_rows(work[table_name])
           /\ column_defs' = ColumnDefs(info, valid_columns')
           /\ primary_key_cols' = PrimaryKeyCols(info)
    /\ conn' = TRUE
    /\ pc' = "create"
    /\ UNCHANGED <<disk, work, backup_failed, args, process, batch_column, max_id,
                   current_min, processed_rows, returned, failed_at, before>>

\* lines 198-203: rollback of the open transaction, close, return False
Rollback_Commits ==
    /\ work' = work
    /\ disk' = work
    /\ returned' = "False"
    /\ failed_at' = pc
    /\ pc' = "done"
Rollback ==
    /\ work' = disk
    /\ disk' = disk
    /\ returned' = "False"
    /\ failed_at' = pc
    /\ pc' = "done"

\* lines 118-124: CREATE TABLE t_new, outside any transaction
CreateShadow ==
    /\ pc = "create"
    /\ IF CreateOk(work, new_table, column_defs)
       THEN /\ work' = [n \in DOMAIN work \cup {new_table} |->
                          IF n = new_table
                          THEN [info |-> CreatedInfo(column_defs), rows |-> EmptyBag]
                          ELSE work[n]]
            /\ disk' = work'
            /\ pc' = "select"
            /\ UNCHANGED <<returned, failed_at>>
       ELSE Rollback
    /\ UNCHANGED <<conn, backup_failed, args, process, locals, before>>

\* lines 126-141: the batching column and its MIN and MAX
SelectBounds ==
    /\ pc = "select"
    /\ batch_column' = BatchColumn(primary_key_cols, valid_columns)
    /\ processed_rows' = 0
    /\ current_min' = MinOf(work[table_name], batch_column')
    /\ max_id' = MaxOf(work[table_name], batch_column')
    /\ pc' = IF current_min'.null \/ max_id'.null THEN "final" ELSE "loop"
    /\ UNCHANGED <<disk, work, conn, backup_failed, args, process, valid_columns,
                   columns_to_drop, total_rows, column_defs, primary_key_cols,
                   returned, failed_at, before>>

\* lines 143-147: the loop test and the BEGIN of the batch
BeginBatch ==
    /\ pc = "loop"
    /\ pc' = IF current_min.v <= max_id.v THEN "insert" ELSE "final"
    /\ UNCHANGED <<disk, work, conn, backup_failed, args, process, locals, returned,
                   failed_at, before>>

\* lines 149-159: INSERT INTO t_new SELECT ... WHERE col >= ? AND col <= ?
CopyBatch ==
    /\ pc = "insert"
    /\ LET batch == SelectRange(work[table_name], valid_columns, batch_column,
                                current_min.v,
                                CurrentMax(current_min.v, batch_size))
           rows == work[new_table].rows (+) batch
       IN  IF ConstraintsOk(work[new_table].info, rows)
           THEN /\ work' = [work EXCEPT ![new_table].rows = rows]
                /\ processed_rows' = processed_rows + BagCardinality(batch)
                /\ pc' = "commit"
                /\ UNCHANGED <<disk, returned, failed_at>>
           ELSE Rollback /\ UNCHANGED processed_rows
    /\ UNCHANGED <<conn, backup_failed, args, process, valid_columns, columns_to_drop,
                   total_rows, column_defs, primary_key_cols, batch_column,
                   max_id, current_min, before>>

\* lines 161-162: commit the batch
CommitBatch ==
    /\ pc = "commit"
    /\ disk' = work
    /\ pc' = "progress"
    /\ UNCHANGED <<work, conn, backup_failed, args, process, locals, returned,
                   failed_at, before>>

\* lines 164-173: report the progress, move to the next batch
Progress ==
    /\ pc = "progress"
    /\ current_min' = Num(NextMin(CurrentMax(current_min.v, batch_size)))
    /\ pc' = "loop"
    /\ UNCHANGED <<disk, work, conn, backup_failed, args, process, valid_columns,
                   columns_to_drop, total_rows, column_defs, primary_key_cols,
                   batch_column, max_id, processed_rows, returned, failed_at,
                   before>>

\* lines 177-183: BEGIN, DROP TABLE t
DropOld_NoBegin ==
    /\ pc = "final"
    /\ work' = [n \in DOMAIN work \ {table_name} |-> work[n]]
    /\ disk' = work'
    /\ pc' = "rename"
    /\ UNCHANGED <<conn, backup_failed, args, process, locals, returned, failed_at,
                   before>>
DropOld ==
    /\ pc = "final"
    /\ work' = [n \in DOMAIN work \ {table_name} |-> work[n]]
    /\ pc' = "rename"
    /\ UNCHANGED <<disk, conn, backup_failed, args, process, locals, returned, failed_at,
                   before>>

\* lines 185-188: ALTER TABLE t_new RENAME TO t
RenameNew ==
    /\ pc = "rename"
    /\ work' = [n \in (DOMAIN work \ {new_table}) \cup {table_name} |->
                  IF n = table_name THEN work[new_table] ELSE work[n]]
    /\ pc' = "fcommit"
    /\ UNCHANGED <<disk, conn, backup_failed, args, process, locals, returned, failed_at,
                   before>>

\* lines 190-191: commit the swap
CommitFinal ==
    /\ pc = "fcommit"
    /\ disk' = work
    /\ pc' = "metrics"
    /\ UNCHANGED <<work, conn, backup_failed, args, process, locals, returned,
                   failed_at, before>>

\* lines 193-208: report the metrics (the rate, processed_rows / total_time),
\* return True
Metrics ==
    /\ pc = "metrics"
    /\ returned' = "True"
    /\ pc' = "done"
    /\ UNCHANGED <<disk, work, conn, backup_failed, args, process, locals,
                   failed_at, before>>

\* main, lines 224-250: the database file and the columns file must exist;
\* then the keep-list is read and drop_unused_columns is called
Main ==
    /\ pc = "main"
    /\ \E db_isfile \in BOOLEAN, columns_isfile \in BOOLEAN :
          IF ~db_isfile \/ ~columns_isfile
          THEN /\ missing_file' = IF ~db_isfile THEN "db_path" ELSE "columns_file"
               /\ exit_code' = "1"
               /\ pc' = "exited"
          ELSE /\ missing_file' = "none"
               /\ exit_code' = exit_code
               /\ pc' = "start"
    /\ UNCHANGED <<disk, work, conn, backup_failed, args, locals, returned,
                   failed_at, before>>

\* main, lines 250-253: sys.exit(1) when drop_unused_columns returned False,
\* else the end of the script
MainExit_AlwaysZero ==
    /\ pc = "done"
    /\ exit_code' = "0"
    /\ pc' = "exited"
    /\ UNCHANGED <<missing_file, disk, work, conn, backup_failed, args, locals, returned,
                   failed_at, before>>
MainExit ==
    /\ pc = "done"
    /\ exit_code' = IF returned = "True" THEN "0" ELSE "1"
    /\ pc' = "exited"
    /\ UNCHANGED <<missing_file, disk, work, conn, backup_failed, args, locals, returned,
                   failed_at, before>>

\* lines 198-203: a statement of the try block raises (disk full, I/O error,
\* database locked, a print that cannot write; at the metrics also the
\* division by a total_time of 0, when the clock did not move during the
\* run): rollback of what is not committed, return False. At the SELECT of
\* MIN and MAX the batching column of line 127 is already assigned.
TryPcs == {"create", "select", "loop", "insert", "commit", "progress", "final",
           "rename", "fcommit", "metrics"}
Except ==
    /\ pc \in TryPcs
    /\ Rollback
    /\ batch_column' = IF pc = "select"
                       THEN BatchColumn(primary_key_cols, valid_columns)
                       ELSE batch_column
    /\ UNCHANGED <<conn, backup_failed, args, process, valid_columns,
                   columns_to_drop, total_rows, column_defs, primary_key_cols,
                   max_id, current_min, processed_rows, before>>

\* the script is run again on the database as it was left, same arguments
Rerun ==
    /\ pc = "exited"
    /\ pc' = "main"
    /\ exit_code' = "none"
    /\ missing_file' = "none"
    /\ before' = disk
    /\ conn' = FALSE
    /\ backup_failed' = FALSE
    /\ returned' = "none"
    /\ failed_at' = "none"
    /\ Unset
    /\ UNCHANGED <<disk, work, args>>

Step ==
    \/ Main
    \/ MainExit
    \/ Backup
    \/ TableMissing
    \/ NothingToDrop
    \/ Introspect
    \/ CreateShadow
    \/ SelectBounds
    \/ BeginBatch
    \/ CopyBatch
    \/ CommitBatch
    \/ Progress
    \/ DropOld
    \/ RenameNew
    \/ CommitFinal
    \/ Metrics

Next == Step \/ Except \/ Rerun

Spec == Init /\ [][Next]_vars

\* the interpreter runs the function to its end; failures and reruns are the
\* environment's choice
FairSpec == Spec /\ WF_vars(Step)

----------------------------------------------------------------------------
(* The vocabulary of the properties *)

\* the keep-list restricted to the columns of the table, in keep-list order
KeepSetOf(cols, keep) == SelectSeq(keep, LAMBDA x : x \in Range(cols))
\* the columns of the table that the keep-list does not name, in table order
DropSetOf(cols, keep) == SelectSeq(cols, LAMBDA x : x \notin Range(keep))

ColumnsOf(db) == get_current_columns(db[table_name].info)

HadTable == table_name \in DOMAIN before
\* drop_unused_columns has returned
Returned == pc \in {"done", "exited"} /\ returned # "none"
Succeeded == Returned /\ returned = "True"
Failed == Returned /\ returned = "False"
\* a successful run that had columns to drop
Rebuilt == Succeeded /\ HadTable /\ DropSetOf(ColumnsOf(before), columns_to_keep) # <<>>

\* the copy loop is over: no value to batch on, or the lower bound is past MAX
LoopOver == current_min.null \/ max_id.null \/ current_min.v > max_id.v

\* the rows the committed batches copied, from the first lower bound lo up to
\* the current lower bound
RECURSIVE CommittedBatches(_)
CommittedBatches(lo) ==
    IF batch_size = 0 \/ lo >= current_min.v THEN EmptyBag
    ELSE SelectRange(before[table_name], valid_columns, batch_column,
                     lo, lo + Whole(batch_size) - Whole(1))
         (+) CommittedBatches(lo + Whole(batch_size))

----------------------------------------------------------------------------
(* C1: after a successful run on a static table, every row that was in the  *)
(* table before the run and has a value in the batching column (so a value  *)
(* within [MIN, MAX]) has its projection onto the kept columns in the table *)
C1_NoRowLost ==
    (Succeeded /\ HadTable) =>
        \A r \in BagToSet(before[table_name].rows) :
            (batch_column = "none" \/ ~r[batch_column].null) =>
                BagIn(Project(r, KeepSetOf(ColumnsOf(before), columns_to_keep)),
                      disk[table_name].rows)

(* C2, as stated: after every successful run the column list is the        *)
(* keep-list restricted to the table's columns, in keep-list order          *)
C2_AsStated ==
    (Succeeded /\ HadTable) =>
        ColumnsOf(disk) = KeepSetOf(ColumnsOf(before), columns_to_keep)

(* C2, amended: after a successful run that had columns to drop the column  *)
(* list is the keep-list restricted to the table's columns, in keep-list    *)
(* order; after a successful run with nothing to drop the column list is    *)
(* the one the table had, which has the names of that list                  *)
C2_Columns ==
    (Succeeded /\ HadTable) =>
        IF DropSetOf(ColumnsOf(before), columns_to_keep) # <<>>
        THEN ColumnsOf(disk) = KeepSetOf(ColumnsOf(before), columns_to_keep)
        ELSE /\ ColumnsOf(disk) = ColumnsOf(before)
             /\ Range(ColumnsOf(disk))
                  = Range(KeepSetOf(ColumnsOf(before), columns_to_keep))

\* a rebuild that reordered the columns: they are in keep-list order, which
\* is not the order the table had them in
C2_Witness ==
    /\ Rebuilt
    /\ Len(ColumnsOf(disk)) > 1
    /\ ColumnsOf(disk) # SelectIn(ColumnsOf(before), Range(columns_to_keep))

(* C3: when the copy of a batch fails (its INSERT or its COMMIT raises),    *)
(* the run reports failure and only the open transaction is undone: the     *)
(* shadow table holds exactly the rows of the batches committed before, the *)
(* original table is as it was before the run, and nothing is executed      *)
(* after (the connection sees the committed state, with both tables)        *)
C3_BatchFailure ==
    [][(pc \in {"insert", "commit"} /\ pc' = "done") =>
          /\ returned' = "False"
          /\ disk' = disk
          /\ work' = disk
          /\ {table_name, new_table} \subseteq DOMAIN disk'
          /\ disk'[table_name] = before[table_name]
          /\ disk'[new_table].rows =
                CommittedBatches(MinOf(before[table_name], batch_column).v)]_vars

\* the copy of a second or later batch failed: the shadow table holds rows
C3_Witness ==
    /\ Failed
    /\ failed_at = "insert"
    /\ BagCardinality(disk[new_table].rows) > 0
    /\ current_min.v <= max_id.v

(* C4: the table keeps its name in every committed state; the committed     *)
(* table changes only by the commit of the final transaction, after the     *)
(* copy loop is over, from the unmodified original to the shadow table,     *)
(* whose name disappears in the same commit                                 *)
C4_Swap ==
    [][(table_name \in DOMAIN disk) =>
          /\ table_name \in DOMAIN disk'
          /\ \/ disk'[table_name] = disk[table_name]
             \/ /\ pc = "fcommit" /\ pc' = "metrics"
                /\ LoopOver
                /\ disk[table_name] = before[table_name]
                /\ new_table \in DOMAIN disk
                /\ disk'[table_name] = disk[new_table]
                /\ new_table \notin DOMAIN disk']_vars

\* the rename failed after the drop had been executed: the original is there
C4_Witness ==
    /\ Failed
    /\ failed_at = "rename"
    /\ disk[table_name] = before[table_name]
    /\ BagCardinality(disk[table_name].rows) > 0

(* C5: two successful runs on the same static table with the same         *)
(* keep-list that differ only in the batch size end with the same columns   *)
(* and the same rows: whatever this successful run left, a run with any     *)
(* other batch size whose copy the shadow table accepts leaves the same     *)
C5_BatchSizeInvariance ==
    Rebuilt =>
        \A size \in 1..MaxBatch :
            LET other == CopyAll(before[table_name], valid_columns, batch_column, size)
            IN  ConstraintsOk(disk[table_name].info, other) =>
                    other = disk[table_name].rows

(* C6: the copy loop ends, for every batch size and every table: a run     *)
(* that is in the loop leaves it                                            *)
C6_LoopEnds == (pc = "loop") ~> (pc \in {"final", "done"})

(* C6, the bounds: the lower bound starts at MIN, a committed batch moves   *)
(* it by the batch size whatever it copied, and the loop is left for the    *)
(* final transaction exactly when the lower bound is past MAX               *)
C6_Bounds ==
    [][/\ (pc = "select" /\ pc' = "loop") =>
              current_min' = MinOf(before[table_name], batch_column')
       /\ (pc = "progress" /\ pc' = "loop") =>
              current_min'.v = current_min.v + Whole(batch_size)
       /\ (pc = "loop" /\ pc' = "final") => current_min.v > max_id.v
       /\ (pc = "loop" /\ pc' = "insert") => current_min.v <= max_id.v]_vars

(* C7: a run that finds nothing to drop changes nothing, processes no row   *)
(* and reports success; and after a successful run the keep-list names      *)
(* every column of the table, so that a second run finds nothing to drop    *)
C7_Idempotent ==
    /\ (Succeeded /\ HadTable) =>
           DropSetOf(ColumnsOf(disk), columns_to_keep) = <<>>
    /\ (HadTable /\ DropSetOf(ColumnsOf(before), columns_to_keep) = <<>>) =>
           /\ disk = before
           /\ work = before
           /\ processed_rows = 0
           /\ (pc = "done" /\ conn) => returned = "True"

\* the second run, on a table that a first run rebuilt (the table of the
\* first run had two columns or more), is over: success, nothing done
C7_Witness ==
    /\ Succeeded
    /\ conn
    /\ Len(ColumnsOf(before)) = 1
    /\ disk = before
    /\ DropSetOf(ColumnsOf(before), columns_to_keep) = <<>>

(* C8: after a successful run that rebuilt the table, the table has as     *)
(* many rows as before the run and the number of rows processed is that     *)
(* number                                                                   *)
C8_RowCount ==
    Rebuilt =>
        /\ count_rows(disk[table_name]) = count_rows(before[table_name])
        /\ processed_rows = count_rows(before[table_name])

(* C9: the batching column is the first primary-key column of the table    *)
(* that is kept, and the first kept column only when no primary-key column  *)
(* is kept                                                                  *)
C9_BatchColumn ==
    (batch_column # "none") =>
        LET keep == KeepSetOf(ColumnsOf(before), columns_to_keep)
            keys == SelectSeq(ColumnsOf(before),
                              LAMBDA c : c \in PkNames(before[table_name].info)
                                         /\ c \in Range(keep))
        IN  batch_column = IF keys # <<>> THEN keys[1] ELSE keep[1]

(* C10: every column of the rebuilt table has the type, the NOT NULL flag,  *)
(* the default and the primary-key flag it had in the original table        *)
C10_Metadata ==
    Rebuilt =>
        \A i \in DOMAIN disk[table_name].info :
            LET new == disk[table_name].info[i]
                old == InfoOf(before[table_name].info, new.name)
            IN  /\ new.type = old.type
                /\ new.notnull = old.notnull
                /\ new.dflt = old.dflt
                /\ (new.pk > 0) = (old.pk > 0)

(* C11: the reconciler's step computes, for every column list of the table *)
(* and every requested keep-list, KeepSet = columns /\ keep-list and        *)
(* DropSet = columns \ KeepSet, which are disjoint and cover the columns;   *)
(* a requested name that the table does not have is left out of both and    *)
(* the step raises nothing                                                  *)
C11_Reconciler ==
    [][(pc = "connect" /\ table_name \in DOMAIN work) =>
          LET currentColumns == Range(ColumnsOf(work))
              requestedKeepList == Range(columns_to_keep)
              KeepSet == Range(valid_columns')
              DropSet == Range(columns_to_drop')
          IN  /\ KeepSet = currentColumns \cap requestedKeepList
              /\ DropSet = currentColumns \ KeepSet
              /\ KeepSet \cap DropSet = {}
              /\ KeepSet \cup DropSet = currentColumns
              /\ pc' \in {"create", "done"}
              /\ returned' # "False"
              /\ failed_at' = "none"]_vars

\* the reconciler has run on a keep-list that names a column the table does
\* not have, next to one it has, and there is a column to drop
C11_Witness ==
    /\ pc = "create"
    /\ Range(columns_to_keep) \ Range(ColumnsOf(before)) # {}
    /\ valid_columns # <<>>
    /\ columns_to_drop # <<>>

(* C12: when no requested name is a column of the table, the run ends in   *)
(* failure and the database stays as it was before the run all along: the   *)
(* table keeps its columns and rows and there is no shadow table            *)
C12_EmptyKeepSet ==
    (HadTable /\ KeepSetOf(ColumnsOf(before), columns_to_keep) = <<>>) =>
        /\ returned # "True"
        /\ pc \in {"main", "start", "connect", "create", "done", "exited"}
        /\ pc = "done" => returned = "False"
        /\ disk = before
        /\ work = before
        /\ disk[table_name] = before[table_name]
        /\ new_table \notin DOMAIN disk

\* a run on a table with rows, no requested name among its columns, has
\* failed where the shadow table is created
C12_Witness ==
    /\ Failed
    /\ failed_at = "create"
    /\ HadTable
    /\ count_rows(before[table_name]) > 0
    /\ KeepSetOf(ColumnsOf(before), columns_to_keep) = <<>>
    /\ columns_to_drop = ColumnsOf(before)

(* C13: the backup, when requested, is the first step of the run, taken    *)
(* with no connection open and changing nothing in the database; when the   *)
(* copy fails the run returns False there and then, and never opens a       *)
(* connection or executes a statement; otherwise the run goes on to connect *)
C13_BackupFirst ==
    /\ [][pc = "start" =>
             /\ ~conn /\ ~conn'
             /\ disk' = disk /\ work' = work
             /\ IF backup_failed'
                THEN pc' = "done" /\ returned' = "False"
                ELSE pc' = "connect" /\ returned' = "none"]_vars
    /\ [](backup_failed =>
             /\ Failed
             /\ ~conn
             /\ failed_at = "none"
             /\ disk = before /\ work = before)

\* the backup copy of a database that had columns to drop has failed
C13_Witness ==
    /\ backup_failed
    /\ Failed
    /\ HadTable
    /\ count_rows(before[table_name]) > 0
    /\ DropSetOf(ColumnsOf(before), columns_to_keep) # <<>>
    /\ KeepSetOf(ColumnsOf(before), columns_to_keep) # <<>>

(* C14: when the table is not in the catalog the run ends in failure right *)
(* after the lookup: it never reaches the creation of the shadow table, the *)
(* copy, the drop or the rename, and the database stays as it was           *)
C14_TableMissing ==
    ~HadTable =>
        /\ pc \in {"main", "start", "connect", "done", "exited"}
        /\ returned # "True"
        /\ pc = "done" => returned = "False"
        /\ failed_at = "none"
        /\ disk = before /\ work = before
        /\ new_table \notin DOMAIN disk
        /\ processed_rows = 0

\* the lookup on an open connection did not find the table
C14_Witness ==
    /\ Failed
    /\ conn
    /\ ~backup_failed
    /\ ~HadTable
    /\ table_name \notin DOMAIN disk

(* C15: the process exits with 1 when main does not find the database file *)
(* or the columns file, and then drop_unused_columns was never called and   *)
(* nothing was touched; it exits with 1 when drop_unused_columns returned   *)
(* False and with 0 when it returned True, the no-op return included        *)
C15_ExitCode ==
    /\ pc = "exited" <=> exit_code # "none"
    /\ missing_file # "none" => pc = "exited"
    /\ pc = "exited" =>
          /\ missing_file # "none" =>
                /\ exit_code = "1"
                /\ returned = "none"
                /\ ~conn /\ ~backup_failed
                /\ disk = before /\ work = before
          /\ returned = "False" => exit_code = "1"
          /\ returned = "True" => exit_code = "0"
          /\ exit_code = "0" => returned = "True"

\* the process has exited after a run that failed in the copy of a batch
C15_FailedRun ==
    /\ pc = "exited"
    /\ exit_code = "1"
    /\ returned = "False"
    /\ failed_at = "insert"
    /\ missing_file = "none"

\* the process has exited because the columns file was missing
C15_Witness ==
    /\ pc = "exited"
    /\ missing_file = "columns_file"
    /\ HadTable
    /\ DropSetOf(ColumnsOf(before), columns_to_keep) # <<>>

\* the process has exited after the no-op return
C15_NothingToDo ==
    /\ pc = "exited"
    /\ exit_code = "0"
    /\ HadTable
    /\ DropSetOf(ColumnsOf(before), columns_to_keep) = <<>>

(* C16: whenever the loop is at its test, after k committed batches, the   *)
(* lower bound is MIN + k * batch_size, the shadow table holds exactly the  *)
(* projections of the rows of the original table whose batching value lies  *)
(* in [MIN, MIN + k * batch_size - 1], each once, and processed_rows is the *)
(* number of rows of the shadow table                                       *)
C16_LoopInvariant ==
    (pc = "loop") =>
        LET minValue == MinOf(before[table_name], batch_column).v
        IN  \E k \in 0 .. (MaxVal + MaxBatch) :
              /\ current_min.v = minValue + k * Whole(batch_size)
              /\ disk[new_table].rows
                    = SelectRange(before[table_name], valid_columns, batch_column,
                                  minValue,
                                  minValue + k * Whole(batch_size) - Whole(1))
              /\ processed_rows = count_rows(disk[new_table])

(* C17: a run that finds the shadow table of an earlier, failed run and    *)
(* has columns to drop fails where the shadow table is created, if it gets  *)
(* that far, and leaves the committed database as it found it: the original *)
(* table and the rows of the shadow table are unchanged, run after run      *)
C17_NoCleanup ==
    (/\ HadTable
     /\ new_table \in DOMAIN before
     /\ DropSetOf(ColumnsOf(before), columns_to_keep) # <<>>) =>
        /\ pc \in {"main", "start", "connect", "create", "done", "exited"}
        /\ returned # "True"
        /\ (Returned /\ conn) => failed_at = "create"
        /\ disk = before
        /\ work = before
        /\ disk[table_name] = before[table_name]
        /\ disk[new_table].rows = before[new_table].rows

\* a later run has failed at the creation of the shadow table, which held
\* rows of committed batches when the run started
C17_Witness ==
    /\ Failed
    /\ failed_at = "create"
    /\ HadTable
    /\ new_table \in DOMAIN before
    /\ count_rows(before[new_table]) > 0
    /\ count_rows(before[new_table]) < count_rows(before[table_name])
    /\ column_defs # <<>>

====
